---- MODULE Spec2Model ----
(***************************************************************************)
(* Model of the wordle-words pipeline: src/parse.py (normalizer and        *)
(* extractors), src/sources.py (endpoints) and src/fetch_wordle_data.py    *)
(* (acquisition, reconciliation, artifact writing).                        *)
(*                                                                         *)
(* Strings are sequences of character codes (ASCII / Latin-1 code points), *)
(* so that strip(), lower() and the regular expressions are computed on    *)
(* the characters, as the code computes them.                              *)
(***************************************************************************)
EXTENDS Integers, Sequences, FiniteSets, TLC

VARIABLES
    pc,                \* position in main()
    err,               \* "none", or which fatal error ended the run
    urlIdx,            \* fetch_allowed: index of the URL the loop is at
    log,               \* the requests made so far, with what each returned
    warned,            \* used sources whose [warn] line went to stderr
    info,              \* "union" once the [info] line of fetch_used is printed
    allowed,           \* main: allowed
    used_sets,         \* fetch_used: used_sets
    used,              \* main: used
    allowed_not_used,  \* main: allowed_not_used (a sorted list)
    all_words,         \* main: all_words (a sorted list)
    fileIdx,           \* which of the three JSON artifacts is being written / mirrored
    tmp,               \* data/<name>.tmp for each JSON artifact
    data,              \* data/<name> for each JSON artifact
    csv,               \* data/words.csv
    public             \* public/<name> for each JSON artifact

vars == <<pc, err, urlIdx, log, warned, info, allowed, used_sets, used,
          allowed_not_used, all_words, fileIdx, tmp, data, csv, public>>

\* ------------------------------------------------------------------ bounds

\* Number of candidate URLs in ALLOWED_URLS (sources.py ships one and says
\* "If the first fails, later ones can be tried").
NumAllowedUrls == 2

\* Number of large used-answers pages the sources may serve: page k lists
\* the words k .. k + Threshold.
NumBigPages == 3

\* ------------------------------------------------------------- characters

Range(s) == { s[i] : i \in 1..Len(s) }

\* str.isspace() over the characters the model uses: \t \n \v \f \r, space, NBSP
Whitespace == {9, 10, 11, 12, 13, 32, 160}

\* \w of a str pattern: letters (also the non-ASCII ones), digits, underscore
IsWordChar(c) ==
    \/ c >= 97 /\ c <= 122
    \/ c >= 65 /\ c <= 90
    \/ c >= 48 /\ c <= 57
    \/ c = 95
    \/ c >= 192 /\ c <= 255 /\ c # 215 /\ c # 247

\* str.lower() on one character: A-Z and the Latin-1 capitals
LowerChar(c) ==
    IF c >= 65 /\ c <= 90 THEN c + 32
    ELSE IF c >= 192 /\ c <= 222 /\ c # 215 THEN c + 32
    ELSE c

Lower(s) == [i \in 1..Len(s) |-> LowerChar(s[i])]

\* str.strip(): drop leading and trailing whitespace
Strip(s) ==
    LET keep == { i \in 1..Len(s) : s[i] \notin Whitespace }
    IN  IF keep = {} THEN <<>>
        ELSE LET first == CHOOSE i \in keep : \A j \in keep : i <= j
                 last  == CHOOSE i \in keep : \A j \in keep : j <= i
             IN  SubSeq(s, first, last)

\* ------------------------------------------------------------ src/parse.py

\* The character classes [a-z] and [a-zA-Z]
LowerAZ == 97..122

AlphaAZ == (65..90) \cup (97..122)

\* W5 = re.compile(r"^[a-z]{5}$"), applied with W5.match to a stripped string
W5(w) == Len(w) = 5 /\ \A i \in 1..5 : w[i] \in LowerAZ

\* (variant) the W5 test left out
normalize_words_Unchecked(words) == { Lower(Strip(w)) : w \in words }

\* normalize_words: strip, lower, keep the W5 matches, as a set
normalize_words(words) ==
    { w \in { Lower(Strip(x)) : x \in words } : W5(w) }

\* \b at position i of text (between text[i-1] and text[i])
WordBoundary(text, i) ==
    LET before == i > 1 /\ IsWordChar(text[i - 1])
        after  == i <= Len(text) /\ IsWordChar(text[i])
    IN  before # after

\* re.finditer(r"\b<class>{5}\b", text): the matched substrings.  A match is
\* a whole run of word characters, so matches never overlap.
FindFive(text, class) ==
    { SubSeq(text, i, i + 4) : i \in
        { j \in 1..(Len(text) - 4) :
            /\ \A k \in j..(j + 4) : text[k] \in class
            /\ WordBoundary(text, j)
            /\ WordBoundary(text, j + 5) } }

\* extract_words_from_html: the fallback over the raw html
extract_words_from_html(html) == normalize_words(FindFive(html, AlphaAZ))

\* Rendering of a tag name in the raw html
TagChars(tag) ==
    CASE tag = "li"   -> <<108, 105>>
      [] tag = "p"    -> <<112>>
      [] tag = "a"    -> <<97>>
      [] tag = "div"  -> <<100, 105, 118>>
      [] tag = "span" -> <<115, 112, 97, 110>>
      [] OTHER        -> <<120>>

\* A page is a sequence of elements [tag, text]; its raw html is
\* <tag>text</tag> for each element in document order.
RECURSIVE RawHtml(_)
RawHtml(page) ==
    IF page = <<>> THEN <<>>
    ELSE LET el == Head(page)
         IN  <<60>> \o TagChars(el.tag) \o <<62>> \o el.text
             \o <<60, 47>> \o TagChars(el.tag) \o <<62>> \o RawHtml(Tail(page))

\* The structural pass: for each selected element, the \b[a-z]{5}\b matches
\* of its lower-cased, stripped text
StructuralCandidates(page, selector) ==
    UNION { FindFive(Lower(Strip(page[i].text)), LowerAZ) :
              i \in { j \in 1..Len(page) : page[j].tag \in selector } }

TechradarSelector == {"li", "p", "td", "strong", "em", "span"}

WordfinderSelector == {"li", "p", "td", "strong", "em", "span", "a"}

\* The shared shape of parse_techradar and parse_wordfinder
ParseWith(page, selector) ==
    LET candidates == StructuralCandidates(page, selector)
    IN  IF candidates = {} THEN normalize_words(extract_words_from_html(RawHtml(page)))
        ELSE normalize_words(candidates)

parse_techradar(page) == ParseWith(page, TechradarSelector)

parse_wordfinder(page) == ParseWith(page, WordfinderSelector)

\* ------------------------------------------------------- what the web serves

\* The i-th word over the letters a, b, c (i in 0..242), in dictionary order
WordOf(i) ==
    << 97 + ((i \div 81) % 3), 97 + ((i \div 27) % 3), 97 + ((i \div 9) % 3),
       97 + ((i \div 3) % 3), 97 + (i % 3) >>

\* if len(inter) < 100
Threshold == 100

\* What an allowed URL can come back with: "fail" (requests.get raises, or the
\* status is one raise_for_status raises on), or a good response with a small
\* or a big text
AllowedOutcomes == {"fail", "small", "big"}

\* r.text.splitlines() of the response
AllowedLines(kind) ==
    IF kind = "small" THEN
        << <<32, 65, 97, 97, 97, 98, 32>>,       \* " Aaaab "
           <<>>,                                 \* ""
           WordOf(2),                            \* "aaaac"
           <<97, 98, 49, 99, 100>>,              \* "ab1cd"
           <<97, 97, 97, 97, 97, 97>>,           \* "aaaaaa"
           <<65, 65, 65, 66, 66>>,               \* "AAABB"
           <<32, 32, 9>>,                        \* "  \t"
           <<97, 233, 97, 97, 97>>,              \* "aéaaa"
           <<9, 97, 97, 97, 98, 97, 160>> >>     \* "\taaaba" and a no-break space
    ELSE IF kind = "big" THEN
        [i \in 1..(Threshold + NumBigPages) |-> WordOf(i)]
            \o << <<>>, <<65, 65, 65, 65, 66>>, <<97, 97, 97, 99>> >>
    ELSE <<>>

\* What a used-answers source can come back with: an exception (in the fetch
\* or in the parse), or a body (whatever the status: it is not looked at)
UsedOutcomes ==
    { [kind |-> x, n |-> 0] : x \in {"exc", "empty", "small", "div"} }
        \cup { [kind |-> "big", n |-> i] : i \in 0..(NumBigPages - 1) }

\* The document of a body, as BeautifulSoup sees it
UsedPage(out) ==
    IF out.kind = "small" THEN
        << [tag |-> "li",   text |-> <<32, 65, 97, 97, 97, 98, 32>>],      \* " Aaaab "
           [tag |-> "p",    text |-> WordOf(2) \o <<45, 122, 122, 122, 122, 122>>],
                                                                          \* "aaaac-zzzzz"
           [tag |-> "span", text |-> <<97, 98, 49, 99, 100, 32, 97, 97, 97, 97, 97, 97,
                                       32, 97, 201, 97, 97, 97>>],        \* "ab1cd aaaaaa aÉaaa"
           [tag |-> "div",  text |-> WordOf(3)],                          \* "aaaba"
           [tag |-> "a",    text |-> WordOf(4)] >>                        \* "aaabb"
    ELSE IF out.kind = "div" THEN
        << [tag |-> "div",  text |-> <<65, 65, 65, 65, 66, 32>> \o WordOf(5)],
                                                                          \* "AAAAB aaabc"
           [tag |-> "a",    text |-> WordOf(6)] >>                        \* "aaaca"
    ELSE IF out.kind = "big" THEN
        [i \in 1..(Threshold + 1) |-> [tag |-> "li", text |-> WordOf(out.n + i - 1)]]
    ELSE <<>>

\* ALLOWED_URLS and USED_SOURCES, as the sources a request names
AllowedUrl(i) == [src |-> "allowed", idx |-> i]

UsedUrl(name) == [src |-> name, idx |-> 0]

Request(url, kind, n) == [url |-> url, kind |-> kind, n |-> n]

\* ------------------------------------------------- src/fetch_wordle_data.py

\* Python's < on two strings
StrLess(a, b) ==
    \E i \in 1..Len(b) :
        /\ \A j \in 1..(i - 1) : j <= Len(a) /\ a[j] = b[j]
        /\ i > Len(a) \/ a[i] < b[i]

\* sorted(S) for a set of strings
RECURSIVE sorted(_)
sorted(S) ==
    IF S = {} THEN <<>>
    ELSE LET m == CHOOSE x \in S : \A y \in S : x = y \/ StrLess(x, y)
         IN  <<m>> \o sorted(S \ {m})

RECURSIVE IntersectAll(_)
IntersectAll(sets) ==
    IF Len(sets) = 1 THEN sets[1] ELSE sets[1] \cap IntersectAll(Tail(sets))

UnionAll(sets) == UNION Range(sets)

\* (variant) the comparison with the threshold taken the other way at equality
Reconcile_OffByOne(sets) ==
    LET inter == IF Len(sets) > 1 THEN IntersectAll(sets) ELSE sets[1]
    IN  IF Cardinality(inter) <= Threshold THEN UnionAll(sets) ELSE inter

\* (variant) the union taken over the later sets only
Reconcile_UnionOfRest(sets) ==
    LET inter == IF Len(sets) > 1 THEN IntersectAll(sets) ELSE sets[1]
    IN  IF Cardinality(inter) < Threshold THEN UnionAll(Tail(sets)) ELSE inter

\* fetch_used, lines 53-59: the intersection, or the union when it is small
Reconcile(sets) ==
    LET inter == IF Len(sets) > 1 THEN IntersectAll(sets) ELSE sets[1]
    IN  IF Cardinality(inter) < Threshold THEN UnionAll(sets) ELSE inter

\* (variant) the sanity filter left out
CrossFilter_Noop(u, a) == u

\* main, line 87: used = used & allowed
CrossFilter(u, a) == u \cap a

\* (variant) the difference not taken
AllowedNotUsed_All(a, u) == sorted(a)

\* main, line 89: allowed_not_used = sorted(allowed - used)
AllowedNotUsed(a, u) == sorted(a \ u)

Today == "2026-11-03"

Yesterday == "2026-11-02"

\* A file holding a JSON payload; st is "absent", "empty", "partial" or "complete"
JsonFile(st, generated, count, words) ==
    [st |-> st, generated |-> generated, count |-> count, words |-> words]

NoFile == JsonFile("absent", "", 0, <<>>)

EmptyFile == JsonFile("empty", "", 0, <<>>)

\* json.dump of {"generated": .., "count": .., "words": ..}
Payload(generated, count, words) == JsonFile("complete", generated, count, words)

JsonNames == <<"allowed.json", "used.json", "allowed_not_used.json">>

\* The payloads main hands to write_json, lines 92-97
PayloadOf(name) ==
    CASE name = "allowed.json" ->
            Payload(Today, Cardinality(allowed), sorted(allowed))
      [] name = "used.json" ->
            Payload(Today, Cardinality(used), sorted(used))
      [] OTHER ->
            Payload(Today, Len(allowed_not_used), allowed_not_used)

\* str(b).lower()
BoolStr(b) == IF b THEN "true" ELSE "false"

\* (variant) the flag taken from the allowed set
CsvRow_FlagAllowed(word, used_set) ==
    [word |-> word, is_used |-> BoolStr(word \in allowed), generated |-> Today]

\* main, line 106: [word, str(word in used_set).lower(), today]
CsvRow(word, used_set) ==
    [word |-> word, is_used |-> BoolStr(word \in used_set), generated |-> Today]

\* The artifacts of the previous run
OldData ==
    [n \in Range(JsonNames) |->
        CASE n = "allowed.json" -> Payload(Yesterday, 2, <<WordOf(1), WordOf(2)>>)
          [] n = "used.json"    -> Payload(Yesterday, 1, <<WordOf(1)>>)
          [] OTHER              -> Payload(Yesterday, 1, <<WordOf(2)>>)]

OldCsv ==
    [header |-> TRUE,
     rows |-> << [word |-> WordOf(1), is_used |-> "true",  generated |-> Yesterday],
                 [word |-> WordOf(2), is_used |-> "false", generated |-> Yesterday] >>]

Init ==
    /\ pc = "fetch_allowed"
    /\ err = "none"
    /\ urlIdx = 1
    /\ log = <<>>
    /\ warned = {}
    /\ info = "none"
    /\ allowed = {}
    /\ used_sets = <<>>
    /\ used = {}
    /\ allowed_not_used = <<>>
    /\ all_words = <<>>
    /\ fileIdx = 1
    /\ tmp = [n \in Range(JsonNames) |-> NoFile]
    /\ data = OldData
    /\ csv = OldCsv
    /\ public = OldData

\* ---------------------------------------------------------------- actions

Fatal(cause) == pc' = "fatal" /\ err' = cause

fetchVars == <<urlIdx, log, warned, info, allowed, used_sets>>

fileVars == <<tmp, data, csv, public, fileIdx>>

mainVars == <<used, allowed_not_used, all_words>>

\* (variant) the first failure is not caught
FetchAllowed_NoFallthrough ==
    /\ pc = "fetch_allowed"
    /\ urlIdx <= NumAllowedUrls
    /\ \E out \in AllowedOutcomes :
          /\ log' = Append(log, Request(AllowedUrl(urlIdx), out, 0))
          /\ IF out = "fail"
                THEN Fatal("allowed") /\ UNCHANGED <<urlIdx, allowed>>
                ELSE /\ allowed' = normalize_words(
                            { Strip(l) : l \in { x \in Range(AllowedLines(out)) :
                                                     Strip(x) # <<>> } })
                     /\ pc' = "techradar"
                     /\ UNCHANGED <<urlIdx, err>>
    /\ UNCHANGED <<warned, info, used_sets>>
    /\ UNCHANGED <<fileVars, mainVars>>

\* fetch_allowed, lines 24-31: one turn of the loop over ALLOWED_URLS
FetchAllowed ==
    /\ pc = "fetch_allowed"
    /\ urlIdx <= NumAllowedUrls
    /\ \E out \in AllowedOutcomes :
          /\ log' = Append(log, Request(AllowedUrl(urlIdx), out, 0))
          /\ IF out = "fail"
                THEN /\ urlIdx' = urlIdx + 1
                     /\ UNCHANGED <<pc, allowed>>
                ELSE /\ allowed' = normalize_words(
                            { Strip(l) : l \in { x \in Range(AllowedLines(out)) :
                                                     Strip(x) # <<>> } })
                     /\ pc' = "techradar"
                     /\ UNCHANGED urlIdx
    /\ UNCHANGED <<err, warned, info, used_sets>>
    /\ UNCHANGED <<fileVars, mainVars>>

\* fetch_allowed, line 32: the loop ran out of URLs
FetchAllowedExhausted ==
    /\ pc = "fetch_allowed"
    /\ urlIdx > NumAllowedUrls
    /\ Fatal("allowed")
    /\ UNCHANGED <<fetchVars, fileVars, mainVars>>

\* (variant) a TechRadar failure is not caught
FetchTechradar_Abort ==
    /\ pc = "techradar"
    /\ \E out \in UsedOutcomes :
          /\ log' = Append(log, Request(UsedUrl("techradar"), out.kind, out.n))
          /\ IF out.kind = "exc"
                THEN Fatal("used") /\ UNCHANGED <<used_sets, warned>>
                ELSE /\ used_sets' = Append(used_sets, parse_techradar(UsedPage(out)))
                     /\ pc' = "wordfinder"
                     /\ UNCHANGED <<err, warned>>
    /\ UNCHANGED <<urlIdx, info, allowed>>
    /\ UNCHANGED <<fileVars, mainVars>>

\* fetch_used, lines 37-41
FetchTechradar ==
    /\ pc = "techradar"
    /\ \E out \in UsedOutcomes :
          /\ log' = Append(log, Request(UsedUrl("techradar"), out.kind, out.n))
          /\ IF out.kind = "exc"
                THEN /\ warned' = warned \cup {"techradar"}
                     /\ UNCHANGED used_sets
                ELSE /\ used_sets' = Append(used_sets, parse_techradar(UsedPage(out)))
                     /\ UNCHANGED warned
    /\ pc' = "wordfinder"
    /\ UNCHANGED <<err, urlIdx, info, allowed>>
    /\ UNCHANGED <<fileVars, mainVars>>

\* fetch_used, lines 44-48
FetchWordfinder ==
    /\ pc = "wordfinder"
    /\ \E out \in UsedOutcomes :
          /\ log' = Append(log, Request(UsedUrl("wordfinder"), out.kind, out.n))
          /\ IF out.kind = "exc"
                THEN /\ warned' = warned \cup {"wordfinder"}
                     /\ UNCHANGED used_sets
                ELSE /\ used_sets' = Append(used_sets, parse_wordfinder(UsedPage(out)))
                     /\ UNCHANGED warned
    /\ pc' = "reconcile"
    /\ UNCHANGED <<err, urlIdx, info, allowed>>
    /\ UNCHANGED <<fileVars, mainVars>>

\* fetch_used, lines 50-59: raise with no set, else return the reconciled set
\* (to main's used)
ReconcileUsed ==
    /\ pc = "reconcile"
    /\ IF used_sets = <<>>
          THEN Fatal("used") /\ UNCHANGED <<used, info>>
          ELSE /\ used' = Reconcile(used_sets)
               /\ info' = IF Cardinality(IF Len(used_sets) > 1 THEN IntersectAll(used_sets)
                                                                ELSE used_sets[1]) < Threshold
                             THEN "union" ELSE info
               /\ pc' = "derive"
               /\ UNCHANGED err
    /\ UNCHANGED <<urlIdx, log, warned, allowed, used_sets>>
    /\ UNCHANGED <<fileVars, allowed_not_used, all_words>>

\* main, lines 87-89; the frame of fetch_used is gone from here on
Derive ==
    /\ pc = "derive"
    /\ used' = CrossFilter(used, allowed)
    /\ allowed_not_used' = AllowedNotUsed(allowed, used')
    /\ used_sets' = <<>>
    /\ fileIdx' = 1
    /\ pc' = "wj_open"
    /\ UNCHANGED <<err, urlIdx, log, warned, info, allowed, all_words>>
    /\ UNCHANGED <<tmp, data, csv, public>>

\* write_json, line 63: open(tmp, "w") creates or truncates the staging file
WriteJsonOpen ==
    /\ pc = "wj_open"
    /\ tmp' = [tmp EXCEPT ![JsonNames[fileIdx]] = EmptyFile]
    /\ pc' = "wj_dump"
    /\ UNCHANGED <<err, fetchVars, mainVars, data, csv, public, fileIdx>>

\* write_json, line 64: json.dump, and the file is closed
WriteJsonDump ==
    /\ pc = "wj_dump"
    /\ tmp' = [tmp EXCEPT ![JsonNames[fileIdx]] = PayloadOf(JsonNames[fileIdx])]
    /\ pc' = "wj_replace"
    /\ UNCHANGED <<err, fetchVars, mainVars, data, csv, public, fileIdx>>

\* write_json, line 65: os.replace(tmp, path); then main goes on to the next
\* artifact, or to the CSV
WriteJsonReplace ==
    /\ pc = "wj_replace"
    /\ data' = [data EXCEPT ![JsonNames[fileIdx]] = tmp[JsonNames[fileIdx]]]
    /\ tmp' = [tmp EXCEPT ![JsonNames[fileIdx]] = NoFile]
    /\ IF fileIdx < Len(JsonNames)
          THEN fileIdx' = fileIdx + 1 /\ pc' = "wj_open"
          ELSE fileIdx' = 1 /\ pc' = "csv_open"
    /\ UNCHANGED <<err, fetchVars, mainVars, csv, public>>

\* write_json: an OSError in open, in the dump (part of the text is in the
\* staging file) or in the rename; nothing catches it
WriteJsonFail ==
    /\ pc \in {"wj_open", "wj_dump", "wj_replace"}
    /\ tmp' = IF pc = "wj_dump"
                THEN [tmp EXCEPT ![JsonNames[fileIdx]] =
                        [PayloadOf(JsonNames[fileIdx]) EXCEPT !.st = "partial"]]
                ELSE tmp
    /\ Fatal("io")
    /\ UNCHANGED <<fetchVars, mainVars, data, csv, public, fileIdx>>

\* main, lines 100-101: all_words, and open(words.csv, "w") truncates the file
CsvOpen ==
    /\ pc = "csv_open"
    /\ all_words' = sorted(allowed \cup used)
    /\ csv' = [header |-> FALSE, rows |-> <<>>]
    /\ pc' = "csv_header"
    /\ UNCHANGED <<err, fetchVars, used, allowed_not_used, tmp, data, public, fileIdx>>

\* main, line 103
CsvHeader ==
    /\ pc = "csv_header"
    /\ csv' = [csv EXCEPT !.header = TRUE]
    /\ pc' = "csv_rows"
    /\ UNCHANGED <<err, fetchVars, mainVars, tmp, data, public, fileIdx>>

\* main, lines 105-106: one turn of the loop over all_words
CsvWriteRow ==
    /\ pc = "csv_rows"
    /\ Len(csv.rows) < Len(all_words)
    /\ csv' = [csv EXCEPT !.rows = Append(@, CsvRow(all_words[Len(csv.rows) + 1], used))]
    /\ UNCHANGED <<pc, err, fetchVars, mainVars, tmp, data, public, fileIdx>>

\* main, line 101: the with block ends
CsvClose ==
    /\ pc = "csv_rows"
    /\ Len(csv.rows) = Len(all_words)
    /\ pc' = "mirror_open"
    /\ UNCHANGED <<err, fetchVars, mainVars, fileVars>>

\* main, lines 101-106: an OSError in open or in a write; nothing catches it
CsvFail ==
    /\ pc \in {"csv_open", "csv_header", "csv_rows"}
    /\ Fatal("io")
    /\ UNCHANGED <<fetchVars, mainVars, fileVars>>

\* mirror_to_public, line 77: open(dst, "wb") truncates the public copy
MirrorOpen ==
    /\ pc = "mirror_open"
    /\ public' = [public EXCEPT ![JsonNames[fileIdx]] = EmptyFile]
    /\ pc' = "mirror_write"
    /\ UNCHANGED <<err, fetchVars, mainVars, tmp, data, csv, fileIdx>>

\* mirror_to_public, line 78; then main goes on to the next file, or ends
MirrorWrite ==
    /\ pc = "mirror_write"
    /\ public' = [public EXCEPT ![JsonNames[fileIdx]] = data[JsonNames[fileIdx]]]
    /\ IF fileIdx < Len(JsonNames)
          THEN fileIdx' = fileIdx + 1 /\ pc' = "mirror_open"
          ELSE fileIdx' = fileIdx /\ pc' = "print_ok"
    /\ UNCHANGED <<err, fetchVars, mainVars, tmp, data, csv>>

\* mirror_to_public: an OSError; nothing catches it
MirrorFail ==
    /\ pc \in {"mirror_open", "mirror_write"}
    /\ Fatal("io")
    /\ UNCHANGED <<fetchVars, mainVars, fileVars>>

\* main, line 112
PrintOk ==
    /\ pc = "print_ok"
    /\ pc' = "done"
    /\ UNCHANGED <<err, fetchVars, mainVars, fileVars>>

Next ==
    \/ FetchAllowed
    \/ FetchAllowedExhausted
    \/ FetchTechradar
    \/ FetchWordfinder
    \/ ReconcileUsed
    \/ Derive
    \/ WriteJsonOpen
    \/ WriteJsonDump
    \/ WriteJsonReplace
    \/ WriteJsonFail
    \/ CsvOpen
    \/ CsvHeader
    \/ CsvWriteRow
    \/ CsvClose
    \/ CsvFail
    \/ MirrorOpen
    \/ MirrorWrite
    \/ MirrorFail
    \/ PrintOk

Spec == Init /\ [][Next]_vars

\* ----------------------------------------------------------------- claims

IsAllowedReq(r) == r.url.src = "allowed"

IsUsedReq(r) == r.url.src # "allowed"

AllowedReqs == SelectSeq(log, IsAllowedReq)

UsedReqs == SelectSeq(log, IsUsedReq)

IsWord(w) == Len(w) = 5 /\ \A i \in 1..5 : w[i] >= 97 /\ w[i] <= 122

ArtifactsUntouched == data = OldData /\ csv = OldCsv /\ public = OldData

\* C1: a run that ends in a fatal error leaves allowed.json, used.json,
\* allowed_not_used.json and words.csv with the content they had before it.
C1_FatalLeavesArtifacts ==
    pc = "fatal" => data = OldData /\ csv = OldCsv

\* C2: whenever a reader looks, each artifact holds its complete previous
\* content or its complete new content, never an empty or partial file.
C2_ReaderSeesOldOrNew ==
    /\ \A n \in Range(JsonNames) : data[n] = OldData[n] \/ data[n] = PayloadOf(n)
    /\ \/ csv = OldCsv
       \/ csv.header /\ Len(csv.rows) = Cardinality(allowed \cup used)

\* C3: every word of the words list written to used.json is in the words list
\* written to allowed.json.
C3_UsedSubsetOfAllowed ==
    data["used.json"] # OldData["used.json"] =>
        /\ data["allowed.json"].generated = Today
        /\ Range(data["used.json"].words) \subseteq Range(data["allowed.json"].words)

\* A finished run whose TechRadar page held a word that is not allowed (zzzzz)
\* and that wrote a non-empty used.json.
C3_Witness ==
    /\ pc = "done"
    /\ data["used.json"].generated = Today
    /\ data["used.json"].count > 0
    /\ \E i \in 1..Len(log) : log[i].url.src = "techradar" /\ log[i].kind = "small"

InterOfUsedSets ==
    { w \in used_sets[1] : \A i \in 1..Len(used_sets) : w \in used_sets[i] }

UnionOfUsedSets ==
    { w \in UNION { used_sets[i] : i \in 1..Len(used_sets) } : TRUE }

\* C4: with two or more sets, fetch_used returns their intersection if it has
\* at least Threshold elements, and their union otherwise.
C4_TwoBranchPolicy ==
    (pc = "derive" /\ Len(used_sets) >= 2) =>
        /\ Cardinality(InterOfUsedSets) >= Threshold => used = InterOfUsedSets
        /\ Cardinality(InterOfUsedSets) < Threshold => used = UnionOfUsedSets
        /\ (info = "union") = (Cardinality(InterOfUsedSets) < Threshold)

\* The intersection branch taken with exactly Threshold common words, the
\* union being another set.
C4_Witness ==
    /\ pc = "derive"
    /\ Len(used_sets) = 2
    /\ Cardinality(InterOfUsedSets) = Threshold
    /\ used = InterOfUsedSets
    /\ used # UnionOfUsedSets

\* C5: with exactly one set S, fetch_used returns S, whatever its size.
C5_SinglePassthrough ==
    (pc = "derive" /\ Len(used_sets) = 1) => used = used_sets[1]

\* One source failed and the other gave a non-empty set below the threshold.
C5_Witness ==
    /\ pc = "derive"
    /\ Len(used_sets) = 1
    /\ warned # {}
    /\ used_sets[1] # {}
    /\ Cardinality(used_sets[1]) < Threshold
    /\ used = used_sets[1]

PastFetchUsed == pc \notin {"fetch_allowed", "techradar", "wordfinder"} /\ err # "allowed"

ParsedOf(r) ==
    IF r.kind = "exc" THEN <<>>
    ELSE IF r.url.src = "techradar"
        THEN <<parse_techradar(UsedPage([kind |-> r.kind, n |-> r.n]))>>
        ELSE <<parse_wordfinder(UsedPage([kind |-> r.kind, n |-> r.n]))>>

\* C6: both used sources are requested whether or not the first failed; the
\* sets reconciled are those of the sources that did not fail, in order; the
\* run is fatal in fetch_used exactly when both failed, and then nothing is
\* returned and no artifact is written.
C6_UsedFaultIsolation ==
    /\ PastFetchUsed =>
          /\ Len(UsedReqs) = 2
          /\ UsedReqs[1].url = UsedUrl("techradar")
          /\ UsedReqs[2].url = UsedUrl("wordfinder")
          /\ warned = { UsedReqs[i].url.src : i \in { j \in 1..2 : UsedReqs[j].kind = "exc" } }
          /\ (pc # "reconcile") =>
                ((err = "used") = (UsedReqs[1].kind = "exc" /\ UsedReqs[2].kind = "exc"))
    /\ pc = "reconcile" => used_sets = ParsedOf(UsedReqs[1]) \o ParsedOf(UsedReqs[2])
    /\ err = "used" => pc = "fatal" /\ used = {} /\ ArtifactsUntouched

\* TechRadar failed, WordFinder did not, and the run finished.
C6_Witness ==
    /\ pc = "done"
    /\ warned = {"techradar"}
    /\ data["used.json"].generated = Today

\* C7: the allowed URLs are requested in list order; every request before the
\* last failed; the allowed set is the normalized text of the one that did
\* not; the run is fatal in fetch_allowed exactly when all of them failed, and
\* then no used source is requested and no artifact is written.
C7_AllowedAcquisition ==
    /\ \A i \in 1..Len(AllowedReqs) : log[i] = AllowedReqs[i] /\ log[i].url = AllowedUrl(i)
    /\ \A i \in 1..(Len(AllowedReqs) - 1) : AllowedReqs[i].kind = "fail"
    /\ Len(AllowedReqs) <= NumAllowedUrls
    /\ (pc # "fetch_allowed") =>
          ((err = "allowed") =
              (Len(AllowedReqs) = NumAllowedUrls /\ AllowedReqs[NumAllowedUrls].kind = "fail"))
    /\ pc \in {"techradar", "done"} =>
          allowed = normalize_words(Range(AllowedLines(AllowedReqs[Len(AllowedReqs)].kind)))
    /\ err = "allowed" =>
          /\ pc = "fatal"
          /\ UsedReqs = <<>>
          /\ ArtifactsUntouched

\* The first URL failed, the second gave the big list, and the run finished.
C7_Witness ==
    /\ pc = "done"
    /\ Len(AllowedReqs) = 2
    /\ AllowedReqs[1].kind = "fail"
    /\ AllowedReqs[2].kind = "big"

\* C8: after a successful run the words of allowed_not_used.json are those of
\* allowed.json minus those of used.json, none of them is in used.json, and
\* each JSON artifact's count is the length of its words list.
C8_SetAlgebra ==
    pc = "done" =>
        /\ Range(data["allowed_not_used.json"].words) =
              Range(data["allowed.json"].words) \ Range(data["used.json"].words)
        /\ Range(data["allowed_not_used.json"].words) \cap Range(data["used.json"].words) = {}
        /\ \A n \in Range(JsonNames) :
              /\ data[n].st = "complete"
              /\ data[n].generated = Today
              /\ data[n].count = Len(data[n].words)

\* A successful run with used words and with allowed words never used.
C8_Witness ==
    /\ pc = "done"
    /\ data["used.json"].count > 0
    /\ data["allowed_not_used.json"].count > 0

CsvWords == { csv.rows[i].word : i \in 1..Len(csv.rows) }

\* C9: after a successful run words.csv has one data row per word of
\* allowed + used, and a row's is_used is true exactly when its word is in
\* the words list of used.json.
C9_CsvConsistency ==
    pc = "done" =>
        /\ csv.header
        /\ CsvWords = Range(data["allowed.json"].words) \cup Range(data["used.json"].words)
        /\ Len(csv.rows) = Cardinality(CsvWords)
        /\ \A i \in 1..Len(csv.rows) :
              /\ csv.rows[i].is_used \in {"true", "false"}
              /\ (csv.rows[i].is_used = "true") =
                    (csv.rows[i].word \in Range(data["used.json"].words))

\* A successful run whose CSV has a used row and a row that is not.
C9_Witness ==
    /\ pc = "done"
    /\ \E i \in 1..Len(csv.rows) : csv.rows[i].is_used = "true"
    /\ \E i \in 1..Len(csv.rows) : csv.rows[i].is_used = "false"

\* C10: every string in allowed, in each per-source used set, in the
\* reconciled and the filtered used set, and in every artifact is five
\* characters of a-z; normalize_words leaves each of the sets as it is.
C10_WordDomain ==
    /\ \A w \in allowed \cup used : IsWord(w)
    /\ \A i \in 1..Len(used_sets) : \A w \in used_sets[i] : IsWord(w)
    /\ \A n \in Range(JsonNames) : \A w \in Range(data[n].words) : IsWord(w)
    /\ \A w \in CsvWords : IsWord(w)
    /\ pc = "techradar" => normalize_words(allowed) = allowed
    /\ pc = "reconcile" =>
          \A i \in 1..Len(used_sets) : normalize_words(used_sets[i]) = used_sets[i]
    /\ pc \in {"derive", "wj_open"} => normalize_words(used) = used

\* The noisy allowed text was normalized, TechRadar was parsed on the fallback
\* path and WordFinder on the structural path, and both gave words.
C10_Witness ==
    /\ pc = "reconcile"
    /\ AllowedReqs[Len(AllowedReqs)].kind = "small"
    /\ Len(used_sets) = 2
    /\ UsedReqs[1].kind = "div"
    /\ UsedReqs[2].kind = "small"
    /\ used_sets[1] # {} /\ used_sets[2] # {}

====
